---- MODULE Spec2Model ----
(***************************************************************************)
(* Model of the image-generation backend: the upload route                 *)
(* (routes/generate.js), the controller (controllers/generateController.js)*)
(* and the two provider dispatchers, as a state machine over one request   *)
(* at a time.  Strings of the source are kept as strings; JavaScript's      *)
(* undefined is the value Undefined.                                        *)
(***************************************************************************)
EXTENDS Integers, Sequences, FiniteSets, TLC

VARIABLES
    env,                \* process.env
    pc,                 \* where the current request is
    reqId,              \* number of the current request
    parts,              \* file parts of the current request, in stream order
    reqFiles,           \* req.files: indices of the stored parts
    body,               \* req.body.transformationType as the controller reads it
    transformationType, \* the controller's local of that name
    prompt,             \* the controller's local of that name
    disk,               \* files present in ./uploads/
    responses,          \* responses sent for the current request
    calls,              \* outbound provider calls made for the current request
    entered,            \* the controller was invoked for the current request
    cleanups,           \* invocations of cleanupUploadedFiles for the current request
    raised,             \* the exception thrown while serving the current request
    caught,             \* the exception that reached the controller's catch block
    unlinks,            \* fs.unlinkSync attempts on each file of req.files
    lastGet             \* the latest response of GET /transformations

vars == <<env, pc, reqId, parts, reqFiles, body, transformationType, prompt, disk,
          responses, calls, entered, cleanups, raised, caught, unlinks, lastGet>>

Undefined == "<undefined>"

\* ---------------------------------------------------------------- bounds
MaxParts == 3
MaxRequests == 2

\* ------------------------------------------------- process configuration
\* process.env as read by the router (at load) and the controller (per request)
EnvValues ==
    [ OPENAI_API_KEY      : {Undefined, "sk-test"},
      DEMO_MODE           : {Undefined, "true"},
      DEMO_IMAGE_URL      : {Undefined, "https://cdn.example/demo.png"},
      AI_PROVIDER         : {Undefined, "openai", "replicate", "stability"},
      REPLICATE_API_TOKEN : {Undefined, "your_replicate_token_here", "r8_test"},
      MAX_FILES           : {Undefined, "1", "3"},
      MAX_FILE_SIZE       : {Undefined} ]

\* JavaScript truthiness of the string-or-undefined values used here
Truthy(v) == v # Undefined /\ v # ""

\* a || b
Or(a, b) == IF Truthy(a) THEN a ELSE b

\* parseInt(s) || dflt on the configuration strings: NaN and 0 are falsy
ParseIntOr(s, dflt) ==
    CASE s = "1" -> 1
      [] s = "3" -> 3
      [] OTHER   -> dflt

\* ------------------------------------------------------------ file parts
\* One multipart file part.  originalname is <<base, extension>> (extension
\* "" when the name has no dot, both "" when the part carries no filename);
\* mimetype is <<type, subtype>>; size is in bytes.
SmallSize == 1024
BigSize == (10 * 1024 * 1024) + 1

GoodJpeg  == [fieldname |-> "images", originalname |-> <<"a", "jpg">>,
              mimetype |-> <<"image", "jpeg">>, size |-> SmallSize]
BigJpeg   == [fieldname |-> "images", originalname |-> <<"b", "jpg">>,
              mimetype |-> <<"image", "jpeg">>, size |-> BigSize]
TextFile  == [fieldname |-> "images", originalname |-> <<"notes", "txt">>,
              mimetype |-> <<"text", "plain">>, size |-> SmallSize]
OtherField == [fieldname |-> "photo", originalname |-> <<"c", "PNG">>,
              mimetype |-> <<"application", "octet-stream">>, size |-> SmallSize]
Nameless  == [fieldname |-> "images", originalname |-> <<"", "">>,
              mimetype |-> <<"application", "octet-stream">>, size |-> SmallSize]

NamelessBig == [fieldname |-> "images", originalname |-> <<"", "">>,
              mimetype |-> <<"application", "octet-stream">>, size |-> BigSize]

PartKinds == {GoodJpeg, BigJpeg, TextFile, OtherField, Nameless, NamelessBig}

RECURSIVE SeqsUpTo(_, _)
SeqsUpTo(S, n) ==
    IF n = 0 THEN {<<>>}
    ELSE LET shorter == SeqsUpTo(S, n - 1)
         IN  shorter \cup {Append(s, x) : s \in {t \in shorter : Len(t) = n - 1}, x \in S}

Requests == SeqsUpTo(PartKinds, MaxParts)

\* --------------------------------------------------------- upload intake
ImageExtensions == {"jpeg", "jpg", "png", "gif", "webp", "bmp", "tiff", "svg"}

\* the /i flag of the extension pattern
ToLower(e) ==
    CASE e = "PNG" -> "png"
      [] e = "JPG" -> "jpg"
      [] OTHER     -> e

HasName(p) == p.originalname # <<"", "">>

\* variant: the filename extension is not looked at
fileFilter_MimeOnly(p) ==
    LET isImageMimeType == p.mimetype[1] = "image"
    IN  isImageMimeType \/ ~HasName(p)

\* fileFilter: TRUE when the part is accepted
fileFilter(p) ==
    LET isImageMimeType   == p.mimetype[1] = "image"
        hasImageExtension == HasName(p) /\ ToLower(p.originalname[2]) \in ImageExtensions
    IN  isImageMimeType \/ hasImageExtension \/ ~HasName(p)

\* limits passed to multer
DefaultMaxFileSize == 10 * 1024 * 1024
LimitFileSize(e) == ParseIntOr(e.MAX_FILE_SIZE, DefaultMaxFileSize)
LimitFiles(e) == ParseIntOr(e.MAX_FILES, 2)

\* upload.array('images', 2): field name and per-field maximum
ArrayField == "images"
ArrayMaxCount == 2

\* The upload middleware over the parts in stream order.  nfiles is the
\* parser's file count, left the files still allowed in the array field,
\* stored the indices of the parts written to temporary storage.  The first
\* violation aborts the upload; err is "" when there is none.
RECURSIVE uploadArray(_, _, _, _, _, _)
uploadArray(e, ps, i, nfiles, left, stored) ==
    IF i > Len(ps) THEN [err |-> "", multer |-> FALSE, files |-> stored, written |-> stored]
    ELSE LET p == ps[i] IN
         IF nfiles >= LimitFiles(e)
           THEN [err |-> "LIMIT_FILE_COUNT", multer |-> TRUE, files |-> <<>>, written |-> stored]
         ELSE IF ~HasName(p)
           THEN uploadArray(e, ps, i + 1, nfiles + 1, left, stored)
         ELSE IF p.fieldname # ArrayField \/ left <= 0
           THEN [err |-> "LIMIT_UNEXPECTED_FILE", multer |-> TRUE, files |-> <<>>, written |-> stored]
         ELSE IF ~fileFilter(p)
           THEN [err |-> "Only image files are allowed (jpeg, jpg, png, gif, webp)",
                 multer |-> FALSE, files |-> <<>>, written |-> stored]
         ELSE IF p.size > LimitFileSize(e)
           THEN [err |-> "LIMIT_FILE_SIZE", multer |-> TRUE, files |-> <<>>,
                 written |-> Append(stored, i)]
         ELSE uploadArray(e, ps, i + 1, nfiles + 1, left - 1, Append(stored, i))

upload(e, ps) == uploadArray(e, ps, 1, 0, ArrayMaxCount, <<>>)

\* ------------------------------------------------------------- responses
NoField == ""

Response(status, success, error, message) ==
    [ status |-> status, success |-> success, error |-> error, message |-> message,
      imageUrl |-> NoField, prompt |-> NoField, transformationType |-> NoField,
      provider |-> NoField, demo |-> FALSE ]

\* variant: the size violation answered as a generic upload error
uploadErrorResponse_SizeAsUploadError(r) ==
    IF r.multer THEN
        CASE r.err = "LIMIT_FILE_COUNT" ->
                Response(400, FALSE, "Too many files", "Maximum 2 images allowed")
          [] r.err = "LIMIT_UNEXPECTED_FILE" ->
                Response(400, FALSE, "Unexpected field", "Use field name \"images\" for file uploads")
          [] OTHER ->
                Response(400, FALSE, "Upload error", r.err)
    ELSE Response(400, FALSE, "Invalid file", r.err)

\* the callback given to upload.array in router.post('/generate-image')
uploadErrorResponse(r) ==
    IF r.multer THEN
        CASE r.err = "LIMIT_FILE_SIZE" ->
                Response(413, FALSE, "File too large", "Each image must be smaller than 10MB")
          [] r.err = "LIMIT_FILE_COUNT" ->
                Response(400, FALSE, "Too many files", "Maximum 2 images allowed")
          [] r.err = "LIMIT_UNEXPECTED_FILE" ->
                Response(400, FALSE, "Unexpected field", "Use field name \"images\" for file uploads")
          [] OTHER ->
                Response(400, FALSE, "Upload error", r.err)
    ELSE Response(400, FALSE, "Invalid file", r.err)

FileIds(rid, idxs) == {[req |-> rid, part |-> idxs[k]] : k \in 1..Len(idxs)}

\* ---------------------------------------------------------- prompt table
\* the keys of the object literal `prompts`
PromptKeys == {"baby_blur", "avatar", "age_progression", "age_regression",
               "pet_generator", "couple_generator", "style_anime",
               "style_painting", "style_cartoon"}

\* each prompt text is named by its key
prompts == [k \in PromptKeys |-> "PROMPT:" \o k]

\* names every object literal inherits from Object.prototype
ObjectPrototypeKeys == {"constructor", "toString", "valueOf", "hasOwnProperty", "__proto__"}

\* prompts[key]: an own property, an inherited member, or undefined
PropertyLookup(key) ==
    IF key \in PromptKeys THEN prompts[key]
    ELSE IF key \in ObjectPrototypeKeys THEN "[inherited " \o key \o "]"
    ELSE Undefined

generatePrompt(t) == Or(PropertyLookup(t), prompts["avatar"])

\* values of the form field transformationType (Undefined: field absent)
TransformationInputs == {Undefined, "", "baby_blur", "avatar", "style_anime",
                         "sepia", "constructor", "toString"}

\* String.prototype.replace('_', ' '): the first underscore only
ReplaceUnderscore(t) ==
    CASE t = "baby_blur"        -> "baby blur"
      [] t = "age_progression"  -> "age progression"
      [] t = "age_regression"   -> "age regression"
      [] t = "pet_generator"    -> "pet generator"
      [] t = "couple_generator" -> "couple generator"
      [] t = "style_anime"      -> "style anime"
      [] t = "style_painting"   -> "style painting"
      [] t = "style_cartoon"    -> "style cartoon"
      [] t = "__proto__"        -> " _proto__"
      [] OTHER                  -> t

\* ------------------------------------------------------- provider results
\* An exception as the controller sees it: message, and the HTTP response
\* (status, body error code, body error message) when there is one.
StreamDefectMessages == {"ReadableStream is not defined",
                         "Invalid state: ReadableStream is locked"}

\* variant: only errors without an HTTP response are taken for the defect
IsStreamDefect_NetworkOnly(err) ==
    Truthy(err.message) /\ err.message \in StreamDefectMessages /\ ~err.hasResponse

\* error.message && error.message.includes('ReadableStream')
IsStreamDefect(err) == Truthy(err.message) /\ err.message \in StreamDefectMessages

HttpErrors ==
    [ message     : {"Request failed", "Invalid state: ReadableStream is locked"},
      hasResponse : {TRUE},
      status      : {400, 401, 402, 429, 500, 503},
      code        : {Undefined, "billing_hard_limit_reached", "invalid_prompt"},
      apiMessage  : {Undefined, "Your request was rejected by the safety system"} ]

NetworkErrors ==
    [ message     : {Undefined, "timeout of 60000ms exceeded", "ReadableStream is not defined"},
      hasResponse : {FALSE},
      status      : {0},
      code        : {Undefined},
      apiMessage  : {Undefined} ]

Errors == HttpErrors \cup NetworkErrors

\* no exception
NoError ==
    [message |-> Undefined, hasResponse |-> FALSE, status |-> -1, code |-> Undefined,
     apiMessage |-> Undefined]

PlainError(msg) ==
    [message |-> msg, hasResponse |-> FALSE, status |-> 0, code |-> Undefined,
     apiMessage |-> Undefined]

OpenAIUrl == "https://oai.example/generated.png"
ReplicateUrl == "https://replicate.example/out-0.png"

\* response.data of the images endpoint: the data array, when present, holds
\* the url of each entry (Undefined when the entry has none)
OpenAIBodies ==
    { [hasData |-> TRUE,  data |-> <<OpenAIUrl>>],
      [hasData |-> TRUE,  data |-> <<Undefined>>],
      [hasData |-> TRUE,  data |-> <<>>],
      [hasData |-> FALSE, data |-> <<>>] }

\* terminal predictions returned by replicate.wait
FinalPredictions ==
    [ status    : {"succeeded", "failed", "canceled"},
      hasOutput : BOOLEAN,
      output    : {<<>>, <<ReplicateUrl>>} ]

\* no GET /transformations answered yet
NoGet == [status |-> 0, success |-> FALSE, transformations |-> <<>>, totalCount |-> 0]

\* ---------------------------------------------------------------- state
Init ==
    /\ env \in EnvValues
    /\ pc = "idle"
    /\ reqId = 1
    /\ parts = <<>>
    /\ reqFiles = <<>>
    /\ body = Undefined
    /\ transformationType = Undefined
    /\ prompt = Undefined
    /\ disk = {}
    /\ responses = <<>>
    /\ calls = <<>>
    /\ entered = FALSE
    /\ cleanups = 0
    /\ raised = NoError
    /\ caught = NoError
    /\ unlinks = <<>>
    /\ lastGet = NoGet

\* variant: the upload callback answers the error and still calls next()
Post_NoReturn(R) ==
    /\ pc = "idle"
    /\ \E ps \in R :
        LET r == upload(env, ps) IN
        /\ parts' = ps
        /\ IF r.err # ""
             THEN /\ pc' = "controller"
                  /\ reqFiles' = <<>>
                  /\ disk' = (disk \cup FileIds(reqId, r.written)) \ FileIds(reqId, r.written)
                  /\ unlinks' = <<>>
                  /\ responses' = Append(responses, uploadErrorResponse(r))
             ELSE /\ pc' = "controller"
                  /\ reqFiles' = r.files
                  /\ unlinks' = [k \in 1..Len(r.files) |-> 0]
                  /\ disk' = disk \cup FileIds(reqId, r.written)
                  /\ responses' = responses
    /\ UNCHANGED <<env, reqId, body, transformationType, prompt, calls, entered,
                   cleanups, raised, caught, lastGet>>

\* POST /generate-image with a request of R: the upload middleware and its
\* callback
Post(R) ==
    /\ pc = "idle"
    /\ \E ps \in R :
        LET r == upload(env, ps) IN
        /\ parts' = ps
        /\ IF r.err # ""
             THEN /\ pc' = "done"
                  /\ reqFiles' = <<>>
                  /\ disk' = (disk \cup FileIds(reqId, r.written)) \ FileIds(reqId, r.written)
                  /\ unlinks' = <<>>
                  /\ responses' = Append(responses, uploadErrorResponse(r))
             ELSE /\ pc' = "controller"
                  /\ reqFiles' = r.files
                  /\ unlinks' = [k \in 1..Len(r.files) |-> 0]
                  /\ disk' = disk \cup FileIds(reqId, r.written)
                  /\ responses' = responses
    /\ UNCHANGED <<env, reqId, body, transformationType, prompt, calls, entered,
                   cleanups, raised, caught, lastGet>>

\* ------------------------------------------------------------ controller
DefaultDemoImageUrl == "https://images.unsplash.com/photo-1544005313-94ddf0286df2?w=400&h=600&fit=crop&crop=face"
FallbackImageUrl == "https://images.unsplash.com/photo-1544005313-94ddf0286df2?w=768&h=1344&fit=crop&crop=face"

NoImagesResponse ==
    Response(400, FALSE, "No images uploaded", "Please upload at least 1 image (max 2)")

ConfigErrorResponse ==
    Response(500, FALSE, "API configuration error",
             "Image generation service not properly configured")

DemoResponse(e) ==
    [ Response(200, TRUE, NoField, "Baby selfie generated successfully! (Demo Mode)")
        EXCEPT !.imageUrl = Or(e.DEMO_IMAGE_URL, DefaultDemoImageUrl),
               !.prompt   = "Demo mode - AI generation temporarily unavailable",
               !.demo     = TRUE ]

\* process.env.AI_PROVIDER || 'openai'
aiProvider(e) == Or(e.AI_PROVIDER, "openai")

\* the success envelope of lines 80-90
SuccessResponse(e, t, pr, url) ==
    [ Response(200, TRUE, NoField,
               ReplaceUnderscore(t) \o " transformation generated successfully!")
        EXCEPT !.imageUrl = url,
               !.prompt   = pr,
               !.transformationType = t,
               !.provider = aiProvider(e) ]

GenerationFailedResponse ==
    Response(500, FALSE, "Image generation failed",
             "Unable to generate baby selfie. Please try again")

\* variant: every upstream 400 is answered 400, the billing code is not looked at
errorResponse_NoBillingCase(err) ==
    IF err.hasResponse /\ err.status = 400 THEN
        Response(400, FALSE, "Invalid request to AI service",
                 Or(err.apiMessage, "Please check your images and try again"))
    ELSE IF err.hasResponse /\ err.status = 402 THEN
        Response(402, FALSE, "Insufficient credits",
                 "AI service needs credits to generate images. Please try again later.")
    ELSE IF err.hasResponse /\ err.status = 429 THEN
        Response(429, FALSE, "Rate limit exceeded", "Too many requests. Please try again later")
    ELSE GenerationFailedResponse

\* variant: the catch-all answer carries the message of the caught error
errorResponse_LeakMessage(err) ==
    IF err.hasResponse /\ err.status = 400 THEN
        IF err.code = "billing_hard_limit_reached"
          THEN Response(402, FALSE, "Service temporarily unavailable",
                        "AI image generation service needs account top-up. Please try again later.")
          ELSE Response(400, FALSE, "Invalid request to AI service",
                        Or(err.apiMessage, "Please check your images and try again"))
    ELSE IF err.hasResponse /\ err.status = 402 THEN
        Response(402, FALSE, "Insufficient credits",
                 "AI service needs credits to generate images. Please try again later.")
    ELSE IF err.hasResponse /\ err.status = 429 THEN
        Response(429, FALSE, "Rate limit exceeded", "Too many requests. Please try again later")
    ELSE Response(500, FALSE, "Image generation failed", err.message)

\* the catch block of generateBabyImage: the response for a caught error
errorResponse(err) ==
    IF err.hasResponse /\ err.status = 400 THEN
        IF err.code = "billing_hard_limit_reached"
          THEN Response(402, FALSE, "Service temporarily unavailable",
                        "AI image generation service needs account top-up. Please try again later.")
          ELSE Response(400, FALSE, "Invalid request to AI service",
                        Or(err.apiMessage, "Please check your images and try again"))
    ELSE IF err.hasResponse /\ err.status = 402 THEN
        Response(402, FALSE, "Insufficient credits",
                 "AI service needs credits to generate images. Please try again later.")
    ELSE IF err.hasResponse /\ err.status = 429 THEN
        Response(429, FALSE, "Rate limit exceeded", "Too many requests. Please try again later")
    ELSE GenerationFailedResponse

\* cleanupUploadedFiles(req.files): the files left on disk
cleanupUploadedFiles(d, rid, files) == d \ FileIds(rid, files)

\* cleanupUploadedFiles(req.files): the unlink attempts after one invocation;
\* fs.unlinkSync is called on the files fs.existsSync finds
unlinkAttempts(d, rid, files, u) ==
    [k \in 1..Len(files) |->
        u[k] + (IF [req |-> rid, part |-> files[k]] \in d THEN 1 ELSE 0)]

\* n successive invocations of cleanupUploadedFiles on the same req.files
RECURSIVE cleanupTimes(_, _, _, _, _)
cleanupTimes(d, rid, files, u, n) ==
    IF n = 0 THEN [disk |-> d, unlinks |-> u]
    ELSE cleanupTimes(cleanupUploadedFiles(d, rid, files), rid, files,
                      unlinkAttempts(d, rid, files, u), n - 1)

\* the request ends: n invocations of cleanupUploadedFiles, then the response
Finish(resp, n) ==
    /\ disk' = cleanupTimes(disk, reqId, reqFiles, unlinks, n).disk
    /\ unlinks' = cleanupTimes(disk, reqId, reqFiles, unlinks, n).unlinks
    /\ cleanups' = cleanups + n
    /\ responses' = Append(responses, resp)
    /\ pc' = "done"

\* the REPLICATE_API_TOKEN test at the head of callReplicateAPI
ReplicateTokenConfigured(e) ==
    Truthy(e.REPLICATE_API_TOKEN) /\ e.REPLICATE_API_TOKEN # "your_replicate_token_here"

\* lines 76-90 once the provider call has returned `url`
Succeed(url) ==
    /\ Finish(SuccessResponse(env, transformationType, prompt, url), 1)
    /\ caught' = NoError

\* an exception reaches the catch block; `ran` cleanups happened before it
Fail(err, ran) ==
    /\ Finish(errorResponse(err), ran + 1)
    /\ caught' = err

\* variant: the API key is validated before the uploaded files are counted
controllerBranch_KeyFirst(e, nfiles) ==
    IF ~Truthy(e.OPENAI_API_KEY) THEN "config_error"
    ELSE IF nfiles = 0 THEN "no_images"
    ELSE IF e.DEMO_MODE = "true" THEN "demo"
    ELSE "dispatch"

\* which of the controller's paths a request takes (lines 17-54)
controllerBranch(e, nfiles) ==
    IF nfiles = 0 THEN "no_images"
    ELSE IF ~Truthy(e.OPENAI_API_KEY) THEN "config_error"
    ELSE IF e.DEMO_MODE = "true" THEN "demo"
    ELSE "dispatch"

\* generateBabyImage from its entry to its first await, or to its response
generateBabyImage ==
    /\ pc = "controller"
    /\ entered' = TRUE
    /\ \E t \in TransformationInputs :
        LET branch == controllerBranch(env, Len(reqFiles)) IN
        IF branch = "no_images" THEN
            /\ Finish(NoImagesResponse, 0)
            /\ UNCHANGED <<body, transformationType, prompt, calls, raised, caught>>
        ELSE IF branch = "config_error" THEN
            /\ Finish(ConfigErrorResponse, 0)
            /\ UNCHANGED <<body, transformationType, prompt, calls, raised, caught>>
        ELSE IF branch = "demo" THEN
            /\ Finish(DemoResponse(env), 1)
            /\ UNCHANGED <<body, transformationType, prompt, calls, raised, caught>>
        ELSE
            /\ body' = t
            /\ transformationType' = Or(t, "baby_blur")
            /\ prompt' = generatePrompt(transformationType')
            /\ IF aiProvider(env) = "replicate" THEN
                    IF ~ReplicateTokenConfigured(env) THEN
                        /\ raised' = PlainError("Replicate API token not configured")
                        /\ Fail(raised', 0)
                        /\ calls' = calls
                    ELSE
                        /\ calls' = Append(calls, "replicate:predictions.create")
                        /\ pc' = "awaitCreate"
                        /\ UNCHANGED <<disk, cleanups, unlinks, responses, raised, caught>>
               ELSE
                    /\ calls' = Append(calls, "openai:images.generations")
                    /\ pc' = "awaitOpenAI"
                    /\ UNCHANGED <<disk, cleanups, unlinks, responses, raised, caught>>
    /\ UNCHANGED <<env, reqId, parts, reqFiles, lastGet>>

\* callOpenAIAPI settles: axios rejects, or returns response.data
callOpenAIAPI ==
    /\ pc = "awaitOpenAI"
    /\ \/ \E err \in Errors : raised' = err /\ Fail(err, 0)
       \/ \E b \in OpenAIBodies :
            IF b.hasData /\ Len(b.data) > 0
              THEN raised' = NoError /\ Succeed(b.data[1])
              ELSE /\ raised' = PlainError("Cannot read properties of undefined")
                   /\ Fail(raised', 1)
    /\ UNCHANGED <<env, reqId, parts, reqFiles, body, transformationType, prompt, calls,
                   entered, lastGet>>

\* the catch block of callReplicateAPI
replicateCatch(err) ==
    /\ raised' = err
    /\ IF IsStreamDefect(err) THEN Succeed(FallbackImageUrl) ELSE Fail(err, 0)

\* replicate.predictions.create settles
callReplicateAPI_create ==
    /\ pc = "awaitCreate"
    /\ \/ /\ pc' = "awaitWait"
          /\ calls' = Append(calls, "replicate:wait")
          /\ UNCHANGED <<disk, cleanups, unlinks, responses, raised, caught>>
       \/ /\ \E err \in Errors : replicateCatch(err)
          /\ calls' = calls
    /\ UNCHANGED <<env, reqId, parts, reqFiles, body, transformationType, prompt, entered,
                   lastGet>>

\* replicate.wait settles
callReplicateAPI_wait ==
    /\ pc = "awaitWait"
    /\ \/ \E err \in Errors : replicateCatch(err)
       \/ \E fp \in FinalPredictions :
            IF fp.status = "succeeded" /\ fp.hasOutput /\ Len(fp.output) > 0
              THEN raised' = NoError /\ Succeed(fp.output[1])
              ELSE replicateCatch(PlainError("Prediction failed with status: " \o fp.status))
    /\ UNCHANGED <<env, reqId, parts, reqFiles, body, transformationType, prompt, calls,
                   entered, lastGet>>

\* the server takes the next request
NextRequest ==
    /\ pc = "done"
    /\ reqId < MaxRequests
    /\ reqId' = reqId + 1
    /\ pc' = "idle"
    /\ parts' = <<>>
    /\ reqFiles' = <<>>
    /\ body' = Undefined
    /\ transformationType' = Undefined
    /\ prompt' = Undefined
    /\ responses' = <<>>
    /\ calls' = <<>>
    /\ entered' = FALSE
    /\ cleanups' = 0
    /\ raised' = NoError
    /\ caught' = NoError
    /\ unlinks' = <<>>
    /\ UNCHANGED <<env, disk, lastGet>>

\* POST /generate-image with up to MaxParts parts of the kinds above
PostGenerateImage == Post(Requests)

Next ==
    \/ PostGenerateImage
    \/ generateBabyImage
    \/ callOpenAIAPI
    \/ callReplicateAPI_create
    \/ callReplicateAPI_wait
    \/ NextRequest



Spec == Init /\ [][Next]_vars

\* ------------------------------------------------- transformation catalog
\* the list built by getTransformations (id, name and category of each entry)
Entry(id, name, category) == [id |-> id, name |-> name, category |-> category]

\* variant: the legacy family-photo entry is left out of the list
transformations_WithoutBabyBlur ==
    << Entry("avatar", "Avatar Pixar", "Character"),
       Entry("age_progression", "Age Progression", "Age"),
       Entry("age_regression", "Age Regression", "Age"),
       Entry("pet_generator", "Your Perfect Pet", "Animals"),
       Entry("couple_generator", "Perfect Match", "Romance"),
       Entry("style_anime", "Anime Style", "Art Style"),
       Entry("style_painting", "Classical Painting", "Art Style"),
       Entry("style_cartoon", "Cartoon Style", "Art Style") >>

transformations ==
    << Entry("avatar", "Avatar Pixar", "Character"),
       Entry("age_progression", "Age Progression", "Age"),
       Entry("age_regression", "Age Regression", "Age"),
       Entry("pet_generator", "Your Perfect Pet", "Animals"),
       Entry("couple_generator", "Perfect Match", "Romance"),
       Entry("style_anime", "Anime Style", "Art Style"),
       Entry("style_painting", "Classical Painting", "Art Style"),
       Entry("style_cartoon", "Cartoon Style", "Art Style"),
       Entry("baby_blur", "Family Photo", "Family") >>

\* GET /transformations: res.json of the list and its length
getTransformations ==
    /\ lastGet' = [status |-> 200, success |-> TRUE,
                   transformations |-> transformations,
                   totalCount |-> Len(transformations)]
    /\ UNCHANGED <<env, pc, reqId, parts, reqFiles, body, transformationType, prompt,
                   disk, responses, calls, entered, cleanups, raised, caught, unlinks>>

\* ------------------------------------- single uploads of every description
\* file names and declared MIME types a client may send
ProbeNames == {<<"", "">>, <<"a", "jpg">>, <<"a", "JPG">>, <<"a", "svg">>,
               <<"a", "heic">>, <<"a", "txt">>, <<"a", "">>}
ProbeMimes == {<<"image", "jpeg">>, <<"image", "heic">>, <<"text", "plain">>,
               <<"application", "octet-stream">>}

ProbeParts ==
    [ fieldname : {ArrayField}, originalname : ProbeNames, mimetype : ProbeMimes,
      size : {SmallSize} ]

\* the named parts among them with neither an image type nor a listed extension
NonImageParts ==
    {p \in ProbeParts : /\ p.originalname \in {<<"a", "heic">>, <<"a", "txt">>, <<"a", "">>}
                        /\ p.mimetype \in {<<"text", "plain">>,
                                            <<"application", "octet-stream">>}}

\* requests of one part of any description, and of a non-image part next to a
\* part of the kinds above
ProbeRequests ==
    {<<p>> : p \in ProbeParts}
      \cup {<<q, p>> : q \in {GoodJpeg, OtherField, BigJpeg, Nameless}, p \in NonImageParts}
      \cup {<<p, q>> : p \in NonImageParts, q \in {GoodJpeg, OtherField, BigJpeg, Nameless}}

PostProbe == Post(ProbeRequests)

\* the server with both routes
NextCatalog ==
    \/ PostProbe
    \/ generateBabyImage
    \/ callOpenAIAPI
    \/ callReplicateAPI_create
    \/ callReplicateAPI_wait
    \/ NextRequest
    \/ getTransformations

SpecCatalog == Init /\ [][NextCatalog]_vars
\* ================================================================ claims
Last == responses[Len(responses)]

\* temporary files of the current request still present in ./uploads/
OwnFiles == {f \in disk : f.req = reqId}

OnReplicatePath == Len(calls) > 0 /\ calls[1] = "replicate:predictions.create"

Oversized(p) == p.size > LimitFileSize(env)

\* C1: once a response to POST /generate-image has been sent, no temporary
\* file created for that request's parts is left in temporary storage.
C1_NoTempFilesAfterResponse ==
    Len(responses) > 0 => OwnFiles = {}

\* C2: a request with no file part is answered 400 'No images uploaded'
\* under every configuration, and no provider call is made for it.
C2_ZeroFilesRejected ==
    (pc # "idle" /\ Len(parts) = 0) =>
        /\ pc \in {"controller", "done"}
        /\ calls = <<>>
        /\ pc = "done" => responses = <<NoImagesResponse>>

C2_Witness ==
    /\ pc = "done"
    /\ Len(parts) = 0
    /\ entered
    /\ responses = <<NoImagesResponse>>
    /\ env.OPENAI_API_KEY = Undefined
    /\ env.DEMO_MODE = "true"

\* C3: a request with more than two file parts in the 'images' field is
\* answered 400 'Too many files' for every configured maximum file count, and
\* the controller and the providers are not reached.  Stated here for the
\* requests all of whose parts are valid images.
C3_TooManyFiles ==
    (pc = "done" /\ Len(parts) > 2 /\ \A i \in 1..Len(parts) : parts[i] = GoodJpeg) =>
        /\ Last.status = 400
        /\ Last.error = "Too many files"
        /\ ~entered
        /\ calls = <<>>

\* C4 as stated: a request with an oversized part is answered 413 'File too
\* large' wherever the part stands, and the controller and the providers are
\* not reached.
C4_OversizedAlways413 ==
    (pc = "done" /\ \E i \in 1..Len(parts) : Oversized(parts[i])) =>
        /\ Last.status = 413
        /\ Last.error = "File too large"
        /\ ~entered
        /\ calls = <<>>

\* part j breaks no upload rule of its own: it carries no filename (and is
\* skipped), or it is in the 'images' field, accepted by the filter and
\* within the size limit
PassesUpload(p) ==
    \/ ~HasName(p)
    \/ p.fieldname = ArrayField /\ fileFilter(p) /\ ~Oversized(p)

\* part i is oversized and is the first part of the request to break a rule
OversizedFirst(i) ==
    /\ Oversized(parts[i])
    /\ HasName(parts[i])
    /\ parts[i].fieldname = ArrayField
    /\ fileFilter(parts[i])
    /\ i <= LimitFiles(env)
    /\ Cardinality({j \in 1..(i - 1) : HasName(parts[j])}) < ArrayMaxCount
    /\ \A j \in 1..(i - 1) : PassesUpload(parts[j])

\* C4 amended: a request with an oversized part that carries a filename never
\* reaches the controller or a provider and is answered with an upload error;
\* the answer is 413 'File too large' when the oversized part is the first
\* part of the request to break an upload rule.
C4_OversizedFirst413 ==
    pc = "done" =>
        /\ (\E i \in 1..Len(parts) : Oversized(parts[i]) /\ HasName(parts[i])) =>
              /\ ~entered
              /\ calls = <<>>
              /\ ~Last.success
              /\ Last.status \in {400, 413}
        /\ (\E i \in 1..Len(parts) : OversizedFirst(i)) =>
              /\ Last.status = 413
              /\ Last.error = "File too large"

C4_Witness ==
    /\ pc = "done"
    /\ Len(parts) >= 2
    /\ parts[1] = GoodJpeg
    /\ parts[2] = BigJpeg
    /\ Last.status = 413
    /\ ~entered

\* C5: a transformationType outside the nine identifiers (the inherited
\* property names included) gets exactly the 'avatar' prompt, an absent or
\* empty one is treated as 'baby_blur', and the request ends in 200 when the
\* provider succeeds.
C5_UnknownTypeGetsAvatarPrompt ==
    prompt # Undefined =>
        /\ (Truthy(body) /\ body \notin PromptKeys) => prompt = prompts["avatar"]
        /\ ~Truthy(body) => (transformationType = "baby_blur" /\ prompt = prompts["baby_blur"])
        /\ (pc = "done" /\ raised = NoError) => (Last.status = 200 /\ Last.success)

\* C6: the status translation of a caught provider failure depends only on
\* the upstream status and error code, on either provider's path: 400 with
\* billing_hard_limit_reached gives 402, any other 400 gives 400, 402 gives
\* 402 'Insufficient credits', 429 gives 429 'Rate limit exceeded'.
C6_StatusTranslation ==
    (pc = "done" /\ caught.hasResponse) =>
        /\ (caught.status = 400 /\ caught.code = "billing_hard_limit_reached") =>
              (Last.status = 402 /\ Last.error = "Service temporarily unavailable")
        /\ (caught.status = 400 /\ caught.code # "billing_hard_limit_reached") =>
              (Last.status = 400 /\ Last.error = "Invalid request to AI service")
        /\ caught.status = 402 =>
              (Last.status = 402 /\ Last.error = "Insufficient credits")
        /\ caught.status = 429 =>
              (Last.status = 429 /\ Last.error = "Rate limit exceeded")
        /\ Len(responses) = 1

C6_Witness ==
    /\ pc = "done"
    /\ OnReplicatePath
    /\ caught.hasResponse
    /\ caught.status = 400
    /\ caught.code = "billing_hard_limit_reached"
    /\ Last.status = 402

\* C7: a caught failure that is not an upstream 400, 402 or 429 is answered
\* 500 with the constant 'Image generation failed' envelope, which carries no
\* text of the caught error.
C7_OtherFailuresGeneric500 ==
    (pc = "done" /\ caught # NoError
       /\ ~(caught.hasResponse /\ caught.status \in {400, 402, 429})) =>
        /\ responses = <<GenerationFailedResponse>>
        /\ Last.message # caught.message
        /\ Last.message # caught.apiMessage

C7_Witness ==
    /\ pc = "done"
    /\ caught = PlainError("Prediction failed with status: failed")
    /\ responses = <<GenerationFailedResponse>>

\* C8: with the demo flag on and at least one stored upload the answer is the
\* demo envelope (200, demo: true, the configured placeholder URL) whatever
\* the credentials and the provider selector; the uploads are cleaned up and
\* no provider call is made.
C8_DemoModeAlwaysDemo ==
    (pc = "done" /\ env.DEMO_MODE = "true" /\ Len(reqFiles) >= 1) =>
        /\ responses = <<DemoResponse(env)>>
        /\ OwnFiles = {}
        /\ calls = <<>>

\* the credentials of the provider the selector names are missing
SelectedCredentialsMissing ==
    IF aiProvider(env) = "replicate"
      THEN ~ReplicateTokenConfigured(env)
      ELSE ~Truthy(env.OPENAI_API_KEY)

\* C9: when the selected provider's credentials are missing the request
\* fails and no outbound call is made at any point; when they are configured
\* the request is not rejected for the other provider's missing credentials.
\* Stated for the requests that bring a stored upload and are not in demo mode.
C9_MissingCredentials ==
    (Len(reqFiles) >= 1 /\ env.DEMO_MODE # "true") =>
        /\ SelectedCredentialsMissing =>
              (calls = <<>> /\ (pc = "done" => ~Last.success /\ Last.status >= 400))
        /\ (~SelectedCredentialsMissing /\ pc = "done") =>
              Last # ConfigErrorResponse

\* C10: on the replicate path an error raised while creating or awaiting the
\* prediction whose message contains 'ReadableStream' ends the request in the
\* 200 success envelope with the fixed placeholder URL; every other error of
\* that path reaches the controller's catch block unchanged.
C10_StreamDefectRecovered ==
    (pc = "done" /\ OnReplicatePath /\ raised # NoError) =>
        IF Truthy(raised.message) /\ raised.message \in StreamDefectMessages
          THEN /\ caught = NoError
               /\ responses = <<SuccessResponse(env, transformationType, prompt,
                                                FallbackImageUrl)>>
               /\ Last.status = 200
          ELSE /\ caught = raised
               /\ Len(responses) = 1
               /\ ~Last.success
               /\ Last.status >= 400

C10_Witness ==
    /\ pc = "done"
    /\ OnReplicatePath
    /\ Len(calls) = 2
    /\ raised.hasResponse
    /\ raised.message = "Invalid state: ReadableStream is locked"
    /\ Last.status = 200
    /\ Last.imageUrl = FallbackImageUrl

\* C11: for a request that reaches the controller with uploaded files, the
\* deletion of each file is attempted exactly once over the request, on the
\* success path and on every failure path.
C11_EachFileUnlinkedOnce ==
    (pc = "done" /\ entered /\ Len(reqFiles) > 0) =>
        \A k \in 1..Len(reqFiles) : unlinks[k] = 1

\* C12: GET /transformations answers 200 with the same nine entries in the
\* same order and totalCount 9 at every call, whatever POST /generate-image
\* requests precede it or are in flight and whatever the configuration.
C12_CatalogFixed ==
    lastGet # NoGet =>
        /\ lastGet.status = 200
        /\ lastGet.totalCount = 9
        /\ Len(lastGet.transformations) = 9
        /\ [k \in 1..9 |-> lastGet.transformations[k].id] =
              <<"avatar", "age_progression", "age_regression", "pet_generator",
                "couple_generator", "style_anime", "style_painting", "style_cartoon",
                "baby_blur">>
        /\ {lastGet.transformations[k].id : k \in 1..9} = PromptKeys

C12_Witness ==
    /\ lastGet # NoGet
    /\ reqId = 2
    /\ pc = "awaitWait"
    /\ env.DEMO_IMAGE_URL # Undefined

\* the request was refused as 'Invalid file' before the controller
RejectedAsInvalid ==
    /\ pc = "done"
    /\ Len(responses) = 1
    /\ Last.status = 400
    /\ Last.error = "Invalid file"
    /\ ~entered
    /\ calls = <<>>

HasListedExtension(p) == HasName(p) /\ ToLower(p.originalname[2]) \in ImageExtensions

\* acceptance as C13 states it: a listed extension, a MIME type of a listed
\* format, or no filename
ListedFormatOrNameless(p) ==
    \/ ~HasName(p)
    \/ HasListedExtension(p)
    \/ p.mimetype[1] = "image" /\ p.mimetype[2] \in (ImageExtensions \cup {"svg+xml"})

\* acceptance as amended: a listed extension, any image/* MIME type, or no
\* filename
AnyImageTypeOrNameless(p) ==
    \/ ~HasName(p)
    \/ HasListedExtension(p)
    \/ p.mimetype[1] = "image"

\* C13 as stated, on the requests of a single part: the part is accepted iff
\* its extension or its MIME type is of a listed format or it has no filename,
\* and a rejected part ends the request in 400 'Invalid file' before the
\* controller.
C13_FilterAcceptsListedOnly ==
    (pc # "idle" /\ Len(parts) = 1) =>
        (RejectedAsInvalid <=> ~ListedFormatOrNameless(parts[1]))

\* part i is refused by the filter and is the first part to break a rule
FilterRejectsFirst(i) ==
    /\ ~AnyImageTypeOrNameless(parts[i])
    /\ parts[i].fieldname = ArrayField
    /\ i <= LimitFiles(env)
    /\ Cardinality({j \in 1..(i - 1) : HasName(parts[j])}) < ArrayMaxCount
    /\ \A j \in 1..(i - 1) :
          \/ ~HasName(parts[j])
          \/ /\ parts[j].fieldname = ArrayField
             /\ AnyImageTypeOrNameless(parts[j])
             /\ ~Oversized(parts[j])

\* C13 amended: a part is accepted iff its extension is listed, or its MIME
\* type is image/* of any subtype, or it has no filename.  A request with a
\* rejected part never reaches the controller or a provider and ends in an
\* upload error, which is 400 'Invalid file' when the rejected part is the
\* first part to break an upload rule.
C13_FilterAcceptsAnyImageType ==
    pc # "idle" =>
        /\ Len(parts) = 1 =>
              /\ RejectedAsInvalid <=> ~AnyImageTypeOrNameless(parts[1])
              /\ (HasName(parts[1]) /\ AnyImageTypeOrNameless(parts[1])) => reqFiles = <<1>>
        /\ (\E i \in 1..Len(parts) : ~AnyImageTypeOrNameless(parts[i])) =>
              /\ pc = "done"
              /\ ~entered
              /\ calls = <<>>
              /\ ~Last.success
              /\ Last.status \in {400, 413}
        /\ (\E i \in 1..Len(parts) : FilterRejectsFirst(i)) => RejectedAsInvalid

C13_Witness ==
    /\ pc = "done"
    /\ Len(parts) = 1
    /\ parts[1].originalname = <<"a", "heic">>
    /\ parts[1].mimetype = <<"image", "heic">>
    /\ entered
    /\ Last.status = 200
    /\ ~Last.demo

\* C14: every POST /generate-image request sends exactly one response: never
\* two on any path, none while the request is being served, and a request
\* being served can always go on (the provider call returning or failing)
\* until its response is sent.
C14_ExactlyOneResponse ==
    /\ Len(responses) <= 1
    /\ pc = "done" <=> Len(responses) = 1
    /\ pc \in {"controller", "awaitOpenAI", "awaitCreate", "awaitWait"} => ENABLED Next

C14_Witness ==
    /\ pc = "done"
    /\ cleanups = 2
    /\ caught # NoError
    /\ Len(responses) = 1
    /\ Last.status = 500

\* C15: in a success envelope that is not the demo one, 'provider' names the
\* provider that was called and 'imageUrl' is the URL that provider returned,
\* for every value of the provider selector.  Stated for the requests whose
\* provider call raised nothing.
C15_ProviderFieldNamesCalledProvider ==
    (pc = "done" /\ Last.success /\ ~Last.demo /\ raised = NoError) =>
        /\ Len(calls) > 0
        /\ calls[1] = "openai:images.generations" =>
              (Last.provider = "openai" /\ Last.imageUrl \in {OpenAIUrl, Undefined})
        /\ calls[1] = "replicate:predictions.create" =>
              (Last.provider = "replicate" /\ Last.imageUrl = ReplicateUrl)
====
